---- MODULE Spec2Model ----
(***************************************************************************)
(* dnsge::HashMap<K, V, Hash, Eq>: an open-addressing hash table with one  *)
(* metadata byte per slot, linear probing, tombstones, load-factor growth  *)
(* and tombstone-driven compaction.  The model instantiates the template   *)
(* with K = int, Hash = std::hash<int> (the identity), Eq = std::equal_to  *)
(* and a value type whose values are small integers.  The calls of         *)
(* ~Slot() are those the code makes for any value type.                    *)
(*                                                                         *)
(* Spec       one table under insert, erase, find, at, clear and reserve   *)
(* TableSpec  one table under insert, erase, clear and reserve             *)
(* AllocSpec  growth whose allocation throws std::bad_alloc                *)
(* MoveSpec   a table moved or copied into a second table                  *)
(* MovedSpec  a moved-from table used again                                *)
(* LifetimeSpec  the ~Slot() calls made on the buffers of a table          *)
(* PositionSpec  erase(iterator) called with the position of any index     *)
(***************************************************************************)
EXTENDS Integers, FiniteSets, Sequences, TLC

\* ------------------------------------------------------------------ bounds
NumKeys == 4
MaxValue == 2
MaxInitialCapacity == 4
MaxReserve == 5
MaxCapacity == 8
MaxDeletedCount == 2

\* ------------------------------------------------------- program constants
DefaultInitialCapacity == 16
Empty == 128
Deleted == 255

\* MaxLoadFactor = 0.875 = 7/8 and MaxDeletedLoadFactor = 0.5 = 1/2, kept as
\* exact fractions: every quotient compared against them is a ratio of small
\* integers, for which the float comparison of the source is exact.
MaxLoadFactorNum == 7
MaxLoadFactorDen == 8
MaxDeletedLoadFactorNum == 1
MaxDeletedLoadFactorDen == 2

\* ------------------------------------------------------------ detail::
IsFree(metadata) == metadata >= 128

H1(hash) == hash \div 128

H2(hash) == hash % 128

\* std::hash<int> (the default Hash argument) is the identity.
Hash(key) == key

\* std::equal_to<K>
Eq(a, b) == a = b

\* The keys the operations draw their arguments from.  Key i hashes to
\* h1 = H1s[i + 1] and h2 = i % 2: the first two keys share the last bucket
\* of a table of capacity 4, so that their probe chain wraps around the end
\* of the slot array, and all keys share a bucket in capacity 1.
H1s == <<3, 7, 1, 2, 0, 4>>

KeyOf(i) == H1s[i + 1] * 128 + (i % 2)

Keys == {KeyOf(i) : i \in 0..(NumKeys - 1)}

Values == 1..MaxValue

\* ----------------------------------------------------- results of a call
\* std::nullopt of std::optional<size_t> / std::optional<InsertionLoc>
nullopt == -1

\* the call never returns: its probe loop cycles over an unchanged table
NoReturn == -2

\* the call executes h1 % capacity_ with capacity_ = 0
DivByZero == -3

\* the call throws std::out_of_range("key not found")
KeyNotFound == -4

\* the call throws std::bad_alloc
BadAlloc == -5

\* the size_t value 2^64 - 1 that 0 - 1 wraps to, written as the -1 it is
\* congruent to modulo 2^64
SIZE_MAX == -1

\* size_ -= 1 on the size_t size_
MinusOne(size) == IF size = 0 THEN SIZE_MAX ELSE size - 1

\* the storage of a slot that holds no constructed Slot
RawSlot == [key |-> -1, value |-> -1]

\* struct Slot { const K key; V value; }
Slot(key, value) == [key |-> key, value |-> value]

\* ------------------------------------------------------------ the table
\* HashMap(size_t initialCapacity)
NewTable(initialCapacity) ==
    [capacity_ |-> initialCapacity,
     size_ |-> 0,
     metadata_ |-> [i \in 0..(initialCapacity - 1) |-> Empty],
     slots_ |-> [i \in 0..(initialCapacity - 1) |-> RawSlot],
     deletedCount_ |-> 0]

\* FixedUninitVec::size() of the slot storage
SlotsSize(t) == Cardinality(DOMAIN t.slots_)

\* the indices of the live slots
LiveSlots(t) == {i \in DOMAIN t.metadata_ : ~IsFree(t.metadata_[i])}

\* end(): iteratorAt(slots_.size())
End(t) == SlotsSize(t)

\* the while (true) loop of locationForInsertion, entered at idex with n
\* slots already visited; after capacity_ visits the loop is back at its
\* first index over the same table, and so never exits
RECURSIVE InsertionProbe(_, _, _, _)
InsertionProbe(t, key, idex, n) ==
    IF n = t.capacity_
    THEN [idex |-> NoReturn, h2 |-> H2(Hash(key))]
    ELSE LET metadata == t.metadata_[idex]
         IN  IF IsFree(metadata)
             THEN [idex |-> idex, h2 |-> H2(Hash(key))]
             ELSE IF metadata = H2(Hash(key)) /\ Eq(key, t.slots_[idex].key)
                  THEN [idex |-> nullopt, h2 |-> H2(Hash(key))]
                  ELSE InsertionProbe(t, key, (idex + 1) % t.capacity_, n + 1)

locationForInsertion(t, key) ==
    IF t.capacity_ = 0
    THEN [idex |-> DivByZero, h2 |-> H2(Hash(key))]
    ELSE InsertionProbe(t, key, H1(Hash(key)) % t.capacity_, 0)

\* insertUnchecked (its three overloads differ only in copying or moving the
\* pair): the table after the call and the returned optional index
insertUnchecked(t, key, value) ==
    LET loc == locationForInsertion(t, key)
    IN  IF loc.idex >= 0
        THEN [table |-> [t EXCEPT !.metadata_[loc.idex] = loc.h2,
                                  !.slots_[loc.idex] = Slot(key, value),
                                  !.size_ = @ + 1],
              ret |-> loc.idex]
        ELSE [table |-> t, ret |-> loc.idex]

\* deleteSlot marking the slot Empty in place of Deleted
deleteSlotAsEmpty(t, idex) ==
    [t EXCEPT !.metadata_[idex] = Empty,
              !.deletedCount_ = @ + 1,
              !.slots_[idex] = RawSlot]

deleteSlot(t, idex) ==
    [t EXCEPT !.metadata_[idex] = Deleted,
              !.deletedCount_ = @ + 1,
              !.slots_[idex] = RawSlot]

\* the while (true) loop of doFind, as InsertionProbe
RECURSIVE FindProbe(_, _, _, _)
FindProbe(t, key, idex, n) ==
    IF n = t.capacity_
    THEN NoReturn
    ELSE LET metadata == t.metadata_[idex]
         IN  IF metadata = H2(Hash(key)) /\ Eq(key, t.slots_[idex].key)
             THEN idex
             ELSE IF metadata = Empty
                  THEN nullopt
                  ELSE FindProbe(t, key, (idex + 1) % t.capacity_, n + 1)

doFind(t, key) ==
    IF t.capacity_ = 0
    THEN DivByZero
    ELSE FindProbe(t, key, H1(Hash(key)) % t.capacity_, 0)

\* iteratorAt(std::optional<size_t>): the index of the position returned
iteratorAt(t, maybeIdex) ==
    IF maybeIdex = nullopt THEN End(t) ELSE maybeIdex

\* find(key): the index of the returned position
find(t, key) == iteratorAt(t, doFind(t, key))

\* at(key): the value referred to by the returned reference, or how the
\* call ended instead
at(t, key) ==
    LET res == doFind(t, key)
    IN  IF res >= 0
        THEN t.slots_[res].value
        ELSE IF res = nullopt THEN KeyNotFound ELSE res

\* the for loop shared by growAndRehash(size_t) and rehashEverything: moves
\* the live slots i, i + 1, ... of t into newTable
RECURSIVE MoveLiveSlots(_, _, _)
MoveLiveSlots(t, newTable, i) ==
    IF i >= t.capacity_
    THEN newTable
    ELSE IF ~IsFree(t.metadata_[i])
         THEN MoveLiveSlots(t,
                  insertUnchecked(newTable, t.slots_[i].key, t.slots_[i].value).table,
                  i + 1)
         ELSE MoveLiveSlots(t, newTable, i + 1)

\* operator=(HashMap &&other) leaving size_ of *this as it was
MoveAssignKeepsSize(this, other) ==
    [capacity_ |-> other.capacity_,
     size_ |-> this.size_,
     metadata_ |-> other.metadata_,
     slots_ |-> other.slots_,
     deletedCount_ |-> other.deletedCount_]

\* operator=(HashMap &&other): the value of *this afterwards
MoveAssign(this, other) ==
    [capacity_ |-> other.capacity_,
     size_ |-> other.size_,
     metadata_ |-> other.metadata_,
     slots_ |-> other.slots_,
     deletedCount_ |-> other.deletedCount_]

\* FixedUninitVec declares no copy constructor and no copy assignment, and
\* its member std::unique_ptr<T> data_ has neither: both are implicitly
\* deleted
FixedUninitVecIsCopyable == FALSE

\* HashMap(const HashMap &other) = default and operator=(const HashMap
\* &other) = default copy member by member, and so are defined as deleted
\* when a member cannot be copied
CopyIsDeleted == ~FixedUninitVecIsCopyable

\* the memberwise copy of other
Copy(other) ==
    [capacity_ |-> other.capacity_,
     size_ |-> other.size_,
     metadata_ |-> other.metadata_,
     slots_ |-> other.slots_,
     deletedCount_ |-> other.deletedCount_]

\* HashMap(HashMap &&other): the value of the object constructed
MoveConstruct(other) ==
    [capacity_ |-> other.capacity_,
     size_ |-> other.size_,
     metadata_ |-> other.metadata_,
     slots_ |-> other.slots_,
     deletedCount_ |-> other.deletedCount_]

\* the value of other after HashMap(HashMap &&other) or operator=(HashMap
\* &&other): the three counters are zeroed, the moved-from std::vector is
\* empty, and the moved-from FixedUninitVec keeps its size_ over a null
\* data_ (its implicit move leaves size_ as it was)
MovedFrom(other) ==
    [capacity_ |-> 0,
     size_ |-> 0,
     metadata_ |-> << >>,
     slots_ |-> [i \in DOMAIN other.slots_ |-> RawSlot],
     deletedCount_ |-> 0]

empty(t) == t.size_ = 0

\* growAndRehash(size_t newCapacity)
growAndRehashTo(t, newCapacity) ==
    IF newCapacity <= t.capacity_
    THEN t
    ELSE MoveAssign(t, IF ~empty(t)
                       THEN MoveLiveSlots(t, NewTable(newCapacity), 0)
                       ELSE NewTable(newCapacity))

\* growAndRehash() without the case of capacity_ = 0
growAndRehashDoubling(t) ==
    growAndRehashTo(t, t.capacity_ * 2)

\* growAndRehash()
growAndRehash(t) ==
    growAndRehashTo(t, IF t.capacity_ = 0
                       THEN DefaultInitialCapacity
                       ELSE t.capacity_ * 2)

\* growAndRehash(size_t newCapacity) with an allocation made only after the
\* live slots were moved out of the old storage
growAndRehashToSlotsMovedOut(t, newCapacity) ==
    IF newCapacity <= t.capacity_
    THEN [table |-> t, threw |-> FALSE]
    ELSE [table |-> [t EXCEPT !.slots_ = [i \in DOMAIN t.slots_ |-> RawSlot]],
          threw |-> TRUE]

\* growAndRehash(size_t newCapacity) when the allocation of newTable fails:
\* ::operator new in FixedUninitVec(size) or metadata_.resize throws
\* std::bad_alloc inside the constructor of newTable, which is the first
\* statement after the capacity test, and the exception leaves the function
growAndRehashToBadAlloc(t, newCapacity) ==
    IF newCapacity <= t.capacity_
    THEN [table |-> t, threw |-> FALSE]
    ELSE [table |-> t, threw |-> TRUE]

\* growAndRehash() when the allocation fails
growAndRehashBadAlloc(t) ==
    growAndRehashToBadAlloc(t, IF t.capacity_ = 0
                               THEN DefaultInitialCapacity
                               ELSE t.capacity_ * 2)

\* rehashEverything() with a newTable of size_ slots in place of capacity_
rehashEverythingToSize(t) ==
    IF empty(t)
    THEN t
    ELSE MoveAssign(t, MoveLiveSlots(t, NewTable(t.size_), 0))

rehashEverything(t) ==
    IF empty(t)
    THEN t
    ELSE MoveAssign(t, MoveLiveSlots(t, NewTable(t.capacity_), 0))

\* loadFactor() >= MaxLoadFactor; 0 / 0 is NaN, which compares false
loadFactorAtLeastMax(t) ==
    /\ t.capacity_ # 0
    /\ t.size_ * MaxLoadFactorDen >= MaxLoadFactorNum * t.capacity_

\* needToGrowForInsert without the test size_ == capacity_
needToGrowForInsertByLoadOnly(t) ==
    loadFactorAtLeastMax(t)

needToGrowForInsert(t) ==
    loadFactorAtLeastMax(t) \/ t.size_ = t.capacity_

\* needRehash with > in place of >=
needRehashStrict(t) ==
    t.deletedCount_ * MaxDeletedLoadFactorDen > t.size_ * MaxDeletedLoadFactorNum

\* deletedCount_ >= size_ * MaxDeletedLoadFactor; false for a size_ of
\* SIZE_MAX, half of which no deletedCount_ of the model reaches
needRehash(t) ==
    /\ t.size_ # SIZE_MAX
    /\ t.deletedCount_ * MaxDeletedLoadFactorDen >= t.size_ * MaxDeletedLoadFactorNum

\* erase(iterator it) calling rehashEverything() whatever needRehash() says
eraseAtAlwaysCompacts(t, idex) ==
    IF idex = End(t)
    THEN [table |-> t, ret |-> FALSE]
    ELSE [table |-> rehashEverything([deleteSlot(t, idex) EXCEPT !.size_ = @ - 1]),
          ret |-> TRUE]

\* erase(iterator it), given the index of it: the table afterwards and the
\* returned bool
eraseAt(t, idex) ==
    IF idex = End(t)
    THEN [table |-> t, ret |-> FALSE]
    ELSE LET deleted == [deleteSlot(t, idex) EXCEPT !.size_ = MinusOne(@)]
         IN  [table |-> IF needRehash(deleted)
                        THEN rehashEverything(deleted)
                        ELSE deleted,
              ret |-> TRUE]

\* clear()
clear(t) ==
    IF empty(t)
    THEN t
    ELSE [t EXCEPT !.metadata_ = [i \in 0..(t.capacity_ - 1) |-> Empty],
                   !.slots_ = [i \in 0..(t.capacity_ - 1) |-> RawSlot],
                   !.size_ = 0,
                   !.deletedCount_ = 0]

\* reserve(n)
reserve(t, n) ==
    IF t.capacity_ >= n THEN t ELSE growAndRehashTo(t, n)

\* ------------------------------------------------------------- the state
VARIABLES
    map,            \* the HashMap object: its five data members
    status,         \* whether the last call made on map returned
    erased,         \* the key removed and size() before, if the last call was an erase that returned true
    uniqueInserts,  \* every call on map since it was constructed or moved from was an insert of a key not inserted before
    inserted,       \* while uniqueInserts: the value each key was inserted with, 0 if none
    map2,           \* a second HashMap object, the destination of moves
    moved           \* map has been moved from

vars == <<map, status, erased, uniqueInserts, inserted, map2, moved>>

\* how a call whose probe gave idex ended
StatusOf(idex) ==
    IF idex = NoReturn THEN "noreturn"
    ELSE IF idex = DivByZero THEN "divbyzero"
    ELSE IF idex = BadAlloc THEN "badalloc"
    ELSE "returned"

\* the last call returned, or threw std::bad_alloc to a caller that goes on:
\* a call that never returns or faults ends the single-threaded program
Returned == status \in {"returned", "badalloc"}

NoErase == [key |-> -1, size |-> 0]

NoneInserted == [k \in Keys |-> 0]

Init ==
    /\ \E initialCapacity \in 0..MaxInitialCapacity : map = NewTable(initialCapacity)
    /\ status = "returned"
    /\ erased = NoErase
    /\ uniqueInserts = TRUE
    /\ inserted = NoneInserted
    /\ map2 = NewTable(0)
    /\ moved = FALSE

\* insert(const std::pair<K, V> &value) / insert(std::pair<K, V> &&value)
insert(t, key, value) ==
    insertUnchecked(IF needToGrowForInsert(t) THEN growAndRehash(t) ELSE t, key, value)

\* the std::optional<iterator> insert returns: it is constructed from the
\* iterator iteratorAt(std::optional<size_t>) gives, and so always holds one
insertReturn(t, key, value) ==
    LET res == insert(t, key, value)
    IN  [has_value |-> TRUE, idex |-> iteratorAt(res.table, res.ret)]

Insert(key, value) ==
    /\ Returned
    /\ LET res == insert(map, key, value)
       IN  /\ map' = res.table
           /\ status' = StatusOf(res.ret)
    /\ erased' = NoErase
    /\ IF uniqueInserts /\ inserted[key] = 0
       THEN /\ uniqueInserts' = TRUE
            /\ inserted' = [inserted EXCEPT ![key] = value]
       ELSE /\ uniqueInserts' = FALSE
            /\ inserted' = NoneInserted
    /\ UNCHANGED <<map2, moved>>

\* erase(const K &key): erase(find(key)); the probe of find may not return
erase(t, key) ==
    LET idex == doFind(t, key)
    IN  IF idex \in {NoReturn, DivByZero}
        THEN [table |-> t, ret |-> FALSE, idex |-> idex]
        ELSE [idex |-> idex] @@ eraseAt(t, iteratorAt(t, idex))

Erase(key) ==
    /\ Returned
    /\ map.deletedCount_ < MaxDeletedCount
    /\ LET res == erase(map, key)
       IN  /\ map' = res.table
           /\ status' = StatusOf(res.idex)
           /\ erased' = IF res.ret
                        THEN [key |-> key, size |-> map.size_]
                        ELSE NoErase
    /\ uniqueInserts' = FALSE
    /\ inserted' = NoneInserted
    /\ UNCHANGED <<map2, moved>>

\* erase(end()): erase(iterator it) called with the end position
EraseEnd ==
    /\ Returned
    /\ LET res == eraseAt(map, End(map))
       IN  /\ map' = res.table
           /\ erased' = IF res.ret
                        THEN [key |-> -1, size |-> map.size_]
                        ELSE NoErase
    /\ status' = "returned"
    /\ uniqueInserts' = FALSE
    /\ inserted' = NoneInserted
    /\ UNCHANGED <<map2, moved>>

\* find(const K &key)
Find(key) ==
    /\ Returned
    /\ status' = StatusOf(doFind(map, key))
    /\ erased' = NoErase
    /\ UNCHANGED <<map, uniqueInserts, inserted, map2, moved>>

\* at(const K &key); an exception thrown is caught by the caller, who goes on
At(key) ==
    /\ Returned
    /\ status' = StatusOf(at(map, key))
    /\ erased' = NoErase
    /\ UNCHANGED <<map, uniqueInserts, inserted, map2, moved>>

Clear ==
    /\ Returned
    /\ map' = clear(map)
    /\ status' = "returned"
    /\ erased' = NoErase
    /\ uniqueInserts' = FALSE
    /\ inserted' = NoneInserted
    /\ UNCHANGED <<map2, moved>>

Reserve(n) ==
    /\ Returned
    /\ map' = reserve(map, n)
    /\ status' = "returned"
    /\ erased' = NoErase
    /\ uniqueInserts' = FALSE
    /\ inserted' = NoneInserted
    /\ UNCHANGED <<map2, moved>>

Next ==
    \/ \E key \in Keys, value \in Values :
          Insert(key, value) /\ map'.capacity_ <= MaxCapacity
    \/ \E key \in Keys : Erase(key)
    \/ EraseEnd
    \/ \E key \in Keys : Find(key)
    \/ \E key \in Keys : At(key)
    \/ Clear
    \/ \E n \in 0..MaxReserve : Reserve(n)

Spec == Init /\ [][Next]_vars

\* ------------------------------- the calls that change the table
\* as Spec, without the calls that only read the table, and with one value
\* for every insert: no branch of the code reads a slot's value
TableNext ==
    \/ \E key \in Keys :
          Insert(key, MaxValue) /\ map'.capacity_ <= MaxCapacity
    \/ \E key \in Keys : Erase(key)
    \/ Clear
    \/ \E n \in 0..MaxReserve : Reserve(n)

TableSpec == Init /\ [][TableNext]_vars

\* ------------------------------------- growth whose allocation fails
\* insert when the allocation of a growth it starts fails: the exception of
\* growAndRehash passes through insert before insertUnchecked is reached
insertBadAlloc(t, key, value) ==
    IF needToGrowForInsert(t)
    THEN LET grown == growAndRehashBadAlloc(t)
         IN  IF grown.threw
             THEN [table |-> grown.table, ret |-> BadAlloc]
             ELSE insertUnchecked(grown.table, key, value)
    ELSE insertUnchecked(t, key, value)

\* reserve(n) when the allocation of the growth it starts fails
reserveBadAlloc(t, n) ==
    IF t.capacity_ >= n
    THEN [table |-> t, threw |-> FALSE]
    ELSE growAndRehashToBadAlloc(t, n)

\* an insert that has to grow the table, and the allocation fails
InsertBadAlloc(key, value) ==
    /\ Returned
    /\ needToGrowForInsert(map)
    /\ LET res == insertBadAlloc(map, key, value)
       IN  /\ map' = res.table
           /\ status' = StatusOf(res.ret)
    /\ erased' = NoErase
    /\ uniqueInserts' = FALSE
    /\ inserted' = NoneInserted
    /\ UNCHANGED <<map2, moved>>

\* a reserve that has to grow the table, and the allocation fails
ReserveBadAlloc(n) ==
    /\ Returned
    /\ map.capacity_ < n
    /\ LET res == reserveBadAlloc(map, n)
       IN  /\ map' = res.table
           /\ status' = IF res.threw THEN "badalloc" ELSE "returned"
    /\ erased' = NoErase
    /\ uniqueInserts' = FALSE
    /\ inserted' = NoneInserted
    /\ UNCHANGED <<map2, moved>>

\* HashMap map(initialCapacity)
AllocInit ==
    /\ \E initialCapacity \in {0, MaxInitialCapacity} : map = NewTable(initialCapacity)
    /\ map2 = NewTable(0)
    /\ status = "returned"
    /\ erased = NoErase
    /\ uniqueInserts = TRUE
    /\ inserted = NoneInserted
    /\ moved = FALSE

AllocNext ==
    \/ \E key \in Keys, value \in Values :
          Insert(key, value) /\ map'.capacity_ <= MaxCapacity
    \/ \E key \in Keys : Erase(key)
    \/ \E key \in Keys, value \in Values : InsertBadAlloc(key, value)
    \/ \E n \in 0..MaxReserve : ReserveBadAlloc(n)

AllocSpec == AllocInit /\ [][AllocNext]_vars

\* ------------------------------------------------------ moving a table
\* map2 = std::move(map)
MoveAssignStep ==
    /\ Returned
    /\ map2' = MoveAssign(map2, map)
    /\ map' = MovedFrom(map)
    /\ moved' = TRUE
    /\ status' = "returned"
    /\ erased' = NoErase
    /\ uniqueInserts' = TRUE
    /\ inserted' = NoneInserted

\* HashMap map2(std::move(map)), in place of the map2 there was
MoveConstructStep ==
    /\ Returned
    /\ map2' = MoveConstruct(map)
    /\ map' = MovedFrom(map)
    /\ moved' = TRUE
    /\ status' = "returned"
    /\ erased' = NoErase
    /\ uniqueInserts' = TRUE
    /\ inserted' = NoneInserted

\* HashMap map2(map), in place of the map2 there was: a call of a deleted
\* function makes the program ill-formed, and nothing runs
CopyConstructStep ==
    /\ Returned
    /\ IF CopyIsDeleted
       THEN map2' = map2 /\ status' = "illformed"
       ELSE map2' = Copy(map) /\ status' = "returned"
    /\ erased' = NoErase
    /\ UNCHANGED <<map, uniqueInserts, inserted, moved>>

\* map2 = map
CopyAssignStep ==
    /\ Returned
    /\ IF CopyIsDeleted
       THEN map2' = map2 /\ status' = "illformed"
       ELSE map2' = Copy(map) /\ status' = "returned"
    /\ erased' = NoErase
    /\ UNCHANGED <<map, uniqueInserts, inserted, moved>>

\* HashMap map(initialCapacity); HashMap map2;
MoveInit ==
    /\ \E initialCapacity \in {0, MaxInitialCapacity} : map = NewTable(initialCapacity)
    /\ map2 = NewTable(DefaultInitialCapacity)
    /\ status = "returned"
    /\ erased = NoErase
    /\ uniqueInserts = TRUE
    /\ inserted = NoneInserted
    /\ moved = FALSE

MoveNext ==
    \/ \E key \in Keys, value \in Values :
          Insert(key, value) /\ map'.capacity_ <= MaxCapacity
    \/ \E key \in Keys : Erase(key)
    \/ \E key \in Keys : Find(key)
    \/ MoveAssignStep
    \/ MoveConstructStep
    \/ CopyAssignStep
    \/ CopyConstructStep

MoveSpec == MoveInit /\ [][MoveNext]_vars

\* ------------------------------------------- using a moved-from table
\* the keys and the value of the loop
\*   for (size_t i = 1; i < cap; ++i) map1.insert({i * 10, "123"});
FillKeys(cap) == {10 * i : i \in 1..(cap - 1)}

FillValue == 1

\* the calls i, i + 1, ... of that loop, which ends when a call does not
\* return: the table afterwards and how the last call made ended
RECURSIVE FillFrom(_, _, _)
FillFrom(t, i, cap) ==
    IF i >= cap
    THEN [table |-> t, ret |-> nullopt]
    ELSE LET res == insert(t, 10 * i, FillValue)
         IN  IF res.ret \in {NoReturn, DivByZero}
             THEN res
             ELSE FillFrom(res.table, i + 1, cap)

\* size_t cap = map1.capacity(); followed by the loop
Fill ==
    /\ Returned
    /\ LET res == FillFrom(map, 1, map.capacity_)
       IN  /\ map' = res.table
           /\ status' = StatusOf(res.ret)
    /\ erased' = NoErase
    /\ uniqueInserts' = FALSE
    /\ inserted' = NoneInserted
    /\ UNCHANGED <<map2, moved>>

\* { HashMap tmp(std::move(map)); }: map is moved into a table whose
\* lifetime ends at once
MoveToTemporary ==
    /\ Returned
    /\ map' = MovedFrom(map)
    /\ moved' = TRUE
    /\ status' = "returned"
    /\ erased' = NoErase
    /\ uniqueInserts' = TRUE
    /\ inserted' = NoneInserted
    /\ UNCHANGED map2

\* the calls of TEST(HashMap, MovedMapIsValid) in any number and with any
\* arguments: inserts and erases, one move, then find, insert and the loop
\* on the moved-from table, up to its first growth beyond
\* DefaultInitialCapacity
MovedNext ==
    \/ \E key \in Keys, value \in Values :
          /\ Insert(key, value)
          /\ map'.capacity_ <= IF moved THEN DefaultInitialCapacity ELSE MaxCapacity
    \/ \E key \in Keys : ~moved /\ Erase(key)
    \/ ~moved /\ MoveToTemporary
    \/ \E key \in Keys : moved /\ Find(key)
    \/ moved /\ map.capacity_ = DefaultInitialCapacity /\ Fill

MovedSpec == MoveInit /\ [][MovedNext]_vars

\* ------------------------------------------- the lifetime of the slots
\* Each operator below gives the ~Slot() calls one function makes on the
\* buffer the table holds when the function is entered: the indices of the
\* slots destructed, in the order of the calls.

\* slots_ giving up its buffer, in ~FixedUninitVec() or in its move
\* assignment (both implicit): the std::unique_ptr<T> data_ runs
\* default_delete<T>, that is `delete p`, which calls ~T() on the element p
\* points at, the one at index 0, and then frees the memory.  A moved-from
\* data_ is null and deletes nothing; the table that holds it has capacity 0.
FixedUninitVecRelease(t) ==
    IF t.capacity_ = 0 THEN << >> ELSE <<0>>

\* the for loop of ~HashMap() and of clear(), from slot i on
RECURSIVE DestroyLiveSlots(_, _)
DestroyLiveSlots(t, i) ==
    IF i >= t.capacity_
    THEN << >>
    ELSE (IF ~IsFree(t.metadata_[i]) THEN <<i>> ELSE << >>)
             \o DestroyLiveSlots(t, i + 1)

\* ~HashMap(): the body, then the destruction of the member slots_
DestructorDestructs(t) ==
    (IF empty(t) THEN << >> ELSE DestroyLiveSlots(t, 0))
        \o FixedUninitVecRelease(t)

\* operator=(HashMap &&other), on the buffer of *this: the body destructs
\* nothing, and this->slots_ = std::move(other.slots_) releases the buffer
MoveAssignDestructs(this) ==
    FixedUninitVecRelease(this)

\* growAndRehash(size_t newCapacity): the loop move-constructs the new slots
\* from the old ones and destructs none, *this = std::move(newTable)
\* releases the old buffer, and ~HashMap() of newTable, which is then
\* moved-from, finds it empty
growAndRehashToDestructs(t, newCapacity) ==
    IF newCapacity <= t.capacity_ THEN << >> ELSE MoveAssignDestructs(t)

growAndRehashDestructs(t) ==
    growAndRehashToDestructs(t, IF t.capacity_ = 0
                                THEN DefaultInitialCapacity
                                ELSE t.capacity_ * 2)

\* rehashEverything(), as growAndRehash(size_t)
rehashEverythingDestructs(t) ==
    IF empty(t) THEN << >> ELSE MoveAssignDestructs(t)

\* erase(iterator it): deleteSlot destructs the slot, then the compaction
eraseAtDestructs(t, idex) ==
    IF idex = End(t)
    THEN << >>
    ELSE LET deleted == [deleteSlot(t, idex) EXCEPT !.size_ = MinusOne(@)]
         IN  <<idex>> \o (IF needRehash(deleted)
                          THEN rehashEverythingDestructs(deleted)
                          ELSE << >>)

\* erase(iterator it) replaces the buffer of the table
eraseAtReplacesBuffer(t, idex) ==
    LET deleted == [deleteSlot(t, idex) EXCEPT !.size_ = MinusOne(@)]
    IN  idex # End(t) /\ needRehash(deleted) /\ ~empty(deleted)

clearDestructs(t) ==
    IF empty(t) THEN << >> ELSE DestroyLiveSlots(t, 0)

insertDestructs(t) ==
    IF needToGrowForInsert(t) THEN growAndRehashDestructs(t) ELSE << >>

reserveDestructs(t, n) ==
    IF t.capacity_ >= n THEN << >> ELSE growAndRehashToDestructs(t, n)

\* HashMap map(initialCapacity) with a buffer of at least one slot;
\* HashMap map2;
LifetimeInit ==
    /\ \E initialCapacity \in 1..MaxInitialCapacity : map = NewTable(initialCapacity)
    /\ map2 = NewTable(DefaultInitialCapacity)
    /\ status = "returned"
    /\ erased = NoErase
    /\ uniqueInserts = TRUE
    /\ inserted = NoneInserted
    /\ moved = FALSE

\* the calls that construct and destruct slots or replace the buffer, until
\* map is moved from
LifetimeNext ==
    \/ \E key \in Keys :
          Insert(key, MaxValue) /\ map'.capacity_ <= MaxCapacity
    \/ \E key \in Keys : Erase(key)
    \/ Clear
    \/ \E n \in 0..MaxReserve : ~moved /\ Reserve(n)
    \/ MoveAssignStep
    \/ ~moved /\ MoveToTemporary

LifetimeSpec == LifetimeInit /\ [][LifetimeNext]_vars

\* ------------------------------------------ erasing a given position
\* erase(iterator it) for the position of any index.  An index that is not
\* that of end() and not below capacity_ fails assert(it.idex_ <
\* capacity_); where NDEBUG compiles the assertion away (ndebug), deleteSlot
\* writes outside metadata_ and slots_, which the model leaves as they are,
\* and the two counters change.  An index below capacity_ passes the
\* assertion whether its slot is live or not.
erasePosition(t, idex, ndebug) ==
    IF idex # End(t) /\ idex >= t.capacity_
    THEN IF ndebug
         THEN [table |-> [t EXCEPT !.size_ = MinusOne(@), !.deletedCount_ = @ + 1],
               ret |-> TRUE,
               status |-> "outofbounds"]
         ELSE [table |-> t, ret |-> FALSE, status |-> "asserted"]
    ELSE [status |-> "returned"] @@ eraseAt(t, idex)

\* size_ is the number of live slots: no call has yet erased a position
\* that holds no live slot
Consistent(t) == t.size_ = Cardinality(LiveSlots(t))

ErasePosition(idex, ndebug) ==
    /\ Returned
    /\ map.deletedCount_ < MaxDeletedCount
    /\ LET res == erasePosition(map, idex, ndebug)
       IN  /\ map' = res.table
           /\ status' = res.status
           /\ erased' = IF res.ret
                        THEN [key |-> IF idex \in DOMAIN map.slots_
                                      THEN map.slots_[idex].key
                                      ELSE -1,
                              size |-> map.size_]
                        ELSE NoErase
    /\ uniqueInserts' = FALSE
    /\ inserted' = NoneInserted
    /\ UNCHANGED <<map2, moved>>

\* the positions passed to erase: those of the slots, end() and one beyond
Positions == 0..(MaxCapacity + 1)

\* insert and erase by key, and erase of any position, followed up to the
\* first call that leaves size_ different from the number of live slots
PositionNext ==
    \/ \E key \in Keys :
          /\ Consistent(map)
          /\ Insert(key, MaxValue)
          /\ map'.capacity_ <= MaxCapacity
    \/ \E key \in Keys : Consistent(map) /\ Erase(key)
    \/ \E idex \in Positions, ndebug \in BOOLEAN :
          Consistent(map) /\ ErasePosition(idex, ndebug)

PositionSpec == Init /\ [][PositionNext]_vars

\* ------------------------------------------------------------ the claims
\* find(key) returns a position holding key
present(t, key) == doFind(t, key) >= 0

\* the value find(key)->value reads
valueAt(t, key) == t.slots_[doFind(t, key)].value

\* C1: after any sequence of inserts with pairwise distinct keys on a fresh
\* table of positive capacity, size() is the number of keys inserted, find
\* finds every inserted key with the value it was inserted with, and find
\* returns end() for every key never inserted.
C1_UniqueInsertsAreFound ==
    (uniqueInserts /\ map.capacity_ > 0) =>
        /\ map.size_ = Cardinality({k \in Keys : inserted[k] # 0})
        /\ \A k \in Keys :
              IF inserted[k] # 0
              THEN /\ present(map, k)
                   /\ map.slots_[doFind(map, k)] = Slot(k, inserted[k])
              ELSE doFind(map, k) = nullopt

\* C2: insert(k, v2) for a key k that is present leaves size() unchanged and
\* leaves the value find(k) reports as it was.
C2_DuplicateInsertChangesNothing ==
    [][\A k \in Keys, v \in Values :
          (Insert(k, v) /\ present(map, k)) =>
              /\ map'.size_ = map.size_
              /\ present(map', k)
              /\ valueAt(map', k) = valueAt(map, k)]_vars

\* C3: erase(k) for a present key k returns true, decreases size() by exactly
\* one, makes find(k) return end(), and leaves every other present key
\* findable with its value unchanged.
C3_ErasePresentKey ==
    [][\A k \in Keys :
          (Erase(k) /\ present(map, k)) =>
              /\ erased'.key = k
              /\ map'.size_ = map.size_ - 1
              /\ doFind(map', k) = nullopt
              /\ \A j \in Keys \ {k} :
                    present(map, j) =>
                        /\ present(map', j)
                        /\ valueAt(map', j) = valueAt(map, j)]_vars

\* C4: no two live slots hold equal keys.
C4_LiveKeysAreDistinct ==
    \A i, j \in LiveSlots(map) :
        i # j => ~Eq(map.slots_[i].key, map.slots_[j].key)

\* C5: find(k) terminates for every key k in every reachable state: its probe
\* loop reaches a slot holding k or a slot whose metadata is Empty.
C5_FindTerminates ==
    \A k \in Keys : doFind(map, k) # NoReturn

\* C6: erase(k) followed immediately by insert(k, v) makes find(k) report v,
\* and size() is what it was before the erase.
C6_InsertAfterErase ==
    [][\A k \in Keys, v \in Values :
          (Insert(k, v) /\ erased.key = k) =>
              /\ present(map', k)
              /\ valueAt(map', k) = v
              /\ map'.size_ = erased.size]_vars

\* C7: whenever an insert or a reserve triggers growAndRehash, the capacity
\* becomes larger, every key findable before is findable afterwards with the
\* same value, and no other key (but the one inserted) becomes findable.
GrowthPreserves(except) ==
    /\ map'.capacity_ > map.capacity_
    /\ \A j \in Keys \ except :
          IF present(map, j)
          THEN present(map', j) /\ valueAt(map', j) = valueAt(map, j)
          ELSE ~present(map', j)

C7_GrowthPreservesAssociations ==
    [][/\ \A k \in Keys, v \in Values :
             (Insert(k, v) /\ needToGrowForInsert(map)) => GrowthPreserves({k})
       /\ \A n \in 0..MaxReserve :
             (Reserve(n) /\ map.capacity_ < n) => GrowthPreserves({})]_vars

\* C8: immediately after every insert call returns,
\* size() / capacity() < MaxLoadFactor.
C8_LoadFactorBound ==
    [][\A k \in Keys, v \in Values :
          (Insert(k, v) /\ status' = "returned") =>
              map'.size_ * MaxLoadFactorDen < MaxLoadFactorNum * map'.capacity_]_vars

C10_SizePlusDeletedWithinCapacity ==
    map.size_ + map.deletedCount_ <= map.capacity_

\* C11: erase(k) for a key k that is not present, and erase(position) with
\* the end position, return false and leave the table unchanged: size,
\* capacity, deletedCount, metadata and every slot.
C11_EraseAbsentChangesNothing ==
    [][/\ \A k \in Keys :
             (Erase(k) /\ ~present(map, k)) =>
                 /\ status' = "returned"
                 /\ erased' = NoErase
                 /\ map' = map
       /\ EraseEnd => (erased' = NoErase /\ map' = map)]_vars

\* C12: after clear() in any reachable state, also one of size 0 with
\* tombstones left, the table is as a fresh table of the same capacity:
\* size() = 0, deletedCount = 0, every metadata entry Empty, no key found.
C12_ClearGivesFreshTable ==
    [][Clear =>
          /\ map' = NewTable(map.capacity_)
          /\ \A k \in Keys : ~present(map', k)]_vars

\* C13: at(k) returns the value associated with k when k is present (the
\* value k was inserted with), fails with KeyNotFound when k is absent, and
\* in both cases leaves the table as it was.
C13_AtReadsWithoutChanging ==
    [][\A k \in Keys :
          At(k) =>
              /\ map' = map
              /\ IF present(map, k)
                 THEN /\ at(map, k) = valueAt(map, k)
                      /\ (uniqueInserts /\ inserted[k] # 0) => at(map, k) = inserted[k]
                 ELSE at(map, k) = KeyNotFound]_vars

\* C14: reserve(n) with n <= capacity leaves the table entirely unchanged;
\* reserve(n) with n > capacity results in capacity >= n while size() and
\* every key/value association are unchanged.
C14_ReserveKeepsContents ==
    [][\A n \in 0..MaxReserve :
          Reserve(n) =>
              IF n <= map.capacity_
              THEN map' = map
              ELSE /\ map'.capacity_ >= n
                   /\ map'.size_ = map.size_
                   /\ \A k \in Keys :
                         IF present(map, k)
                         THEN present(map', k) /\ valueAt(map', k) = valueAt(map, k)
                         ELSE ~present(map', k)]_vars

\* C15: after move construction or move assignment from map into map2, map2
\* has exactly the size and the key/value associations map had before the
\* move (a key map did not hold is not findable in map2, whatever map2 held
\* before), and map has size 0 and capacity 0.
C15_MoveTransfersContents ==
    [][(MoveAssignStep \/ MoveConstructStep) =>
          /\ map2'.size_ = map.size_
          /\ \A k \in Keys :
                IF present(map, k)
                THEN present(map2', k) /\ valueAt(map2', k) = valueAt(map, k)
                ELSE ~present(map2', k)
          /\ map'.size_ = 0
          /\ map'.capacity_ = 0]_vars

\* a table holding entries and a tombstone has just been moved into map2
C15_Witness ==
    /\ moved
    /\ status = "returned"
    /\ map.capacity_ = 0
    /\ map2.size_ > 1
    /\ map2.deletedCount_ > 0
    /\ \E k \in Keys : present(map2, k)

\* C16: on a moved-from table, and on a table constructed with initial
\* capacity 0 (capacity 0, size 0), find(k) returns end() and erase(k)
\* returns false for every key k, and neither call faults.
C16_EmptyDescriptorIsSafe ==
    [][\A k \in Keys :
          (map.capacity_ = 0 /\ map.size_ = 0) =>
              /\ Find(k) => (status' = "returned" /\ find(map, k) = End(map))
              /\ Erase(k) => (status' = "returned" /\ erased' = NoErase /\ map' = map)]_vars

\* C17: a moved-from table supports insertions as if newly constructed with
\* capacity 0: the first insert grows it from zero to DefaultInitialCapacity
\* and leaves it as that insert leaves a table constructed with capacity 0;
\* after inserts of distinct keys size() counts them and find finds each
\* with its value and no other key; and the loop inserting capacity - 1
\* further keys grows the table again, to twice the capacity, with every key
\* findable.
C17_MovedFromTableIsUsable ==
    [][/\ \A k \in Keys, v \in Values :
             (moved /\ map.capacity_ = 0 /\ Insert(k, v)) =>
                 /\ status' = "returned"
                 /\ map'.capacity_ = DefaultInitialCapacity
                 /\ map' = insert(NewTable(0), k, v).table
                 /\ map'.size_ = 1
                 /\ present(map', k)
                 /\ valueAt(map', k) = v
       /\ (moved' /\ uniqueInserts' /\ map'.capacity_ > 0) =>
             /\ map'.size_ = Cardinality({k \in Keys : inserted'[k] # 0})
             /\ \A k \in Keys :
                   IF inserted'[k] # 0
                   THEN /\ present(map', k)
                        /\ valueAt(map', k) = inserted'[k]
                   ELSE doFind(map', k) = nullopt
       /\ (moved /\ map.capacity_ = DefaultInitialCapacity /\ Fill) =>
             /\ status' = "returned"
             /\ map'.capacity_ = 2 * map.capacity_
             /\ map'.size_ = map.size_ + Cardinality(FillKeys(map.capacity_))
             /\ \A k \in FillKeys(map.capacity_) :
                   present(map', k) /\ valueAt(map', k) = FillValue
             /\ \A k \in Keys :
                   IF present(map, k)
                   THEN present(map', k) /\ valueAt(map', k) = valueAt(map, k)
                   ELSE doFind(map', k) = nullopt]_vars

\* a moved-from table took inserts and the loop, and has grown from 0 to
\* DefaultInitialCapacity and on to twice that
C17_Witness ==
    /\ moved
    /\ status = "returned"
    /\ SlotsSize(map) = 2 * DefaultInitialCapacity
    /\ map.capacity_ = 2 * DefaultInitialCapacity
    /\ map.size_ > DefaultInitialCapacity
    /\ \E k \in Keys : present(map, k)

\* C18: copy construction and copy assignment from map give a map2 with the
\* same size() and the same found/absent result and value for every key,
\* leave map as it was, and a later insert or erase on map does not change
\* map2.
C18_CopyDuplicatesContents ==
    [][/\ (CopyConstructStep \/ CopyAssignStep) =>
             /\ status' = "returned"
             /\ map' = map
             /\ map2'.size_ = map.size_
             /\ \A k \in Keys :
                   IF present(map, k)
                   THEN present(map2', k) /\ valueAt(map2', k) = valueAt(map, k)
                   ELSE ~present(map2', k)
       /\ \A k \in Keys :
             (Erase(k) \/ \E v \in Values : Insert(k, v)) => map2' = map2]_vars

\* C19: insert returns the position of the newly constructed slot when the
\* key was absent, which is the position find(key) returns afterwards; when
\* the key is already present the optional it returns holds no position.
C19_InsertReturnsPosition ==
    [][\A k \in Keys, v \in Values :
          Insert(k, v) =>
              /\ status' = "returned"
              /\ LET ret == insertReturn(map, k, v)
                 IN  IF present(map, k)
                     THEN ~ret.has_value
                     ELSE /\ ret.has_value
                          /\ ret.idex = find(map', k)
                          /\ map'.slots_[ret.idex] = Slot(k, v)]_vars

\* C20: if the allocation of the new table fails during a growth started
\* by insert or reserve, the call fails with std::bad_alloc and the table is
\* unmodified: same capacity, size, deletedCount, metadata and slots.
C20_FailedGrowthChangesNothing ==
    [][/\ \A k \in Keys, v \in Values :
             InsertBadAlloc(k, v) => (status' = "badalloc" /\ map' = map)
       /\ \A n \in 0..MaxReserve :
             ReserveBadAlloc(n) => (status' = "badalloc" /\ map' = map)]_vars

\* a growth of a table holding live slots and a tombstone has just failed
C20_Witness ==
    /\ status = "badalloc"
    /\ map.size_ > 1
    /\ map.deletedCount_ > 0

\* the length of std::vector<metadata_t> metadata_
MetadataSize(t) == Cardinality(DOMAIN t.metadata_)

\* C21: in every reachable state of a table, a moved-from table included,
\* end() is the position whose index is the current capacity, the metadata
\* array and the slot storage both have capacity elements, and a find that
\* does not find its key returns a position equal to end().
C21_EndIsCapacity ==
    /\ End(map) = map.capacity_
    /\ MetadataSize(map) = map.capacity_
    /\ SlotsSize(map) = map.capacity_
    /\ \A k \in Keys : doFind(map, k) = nullopt => find(map, k) = map.capacity_

\* the number of steps of the probe sequence of key from the slot it starts
\* at, H1(hash(key)) mod capacity, to the slot at idex
ProbeDistance(t, key, idex) ==
    (idex - (H1(Hash(key)) % t.capacity_)) % t.capacity_

\* the slots the probe sequence of key visits before it visits idex
ProbedBefore(t, key, idex) ==
    {((H1(Hash(key)) % t.capacity_) + j) % t.capacity_ :
        j \in 0..(ProbeDistance(t, key, idex) - 1)}

\* C22: in every reachable state, every live slot at index i holding key k
\* has metadata H2(hash(k)), and the walk from H1(hash(k)) mod capacity over
\* i's predecessors in the probe sequence visits no slot whose metadata is
\* Empty before it reaches i.
C22_ProbeChain ==
    \A i \in LiveSlots(map) :
        /\ map.metadata_[i] = H2(Hash(map.slots_[i].key))
        /\ \A j \in ProbedBefore(map, map.slots_[i].key, i) :
              map.metadata_[j] # Empty

\* a live slot lies beyond a tombstone of its probe sequence, which wraps
\* around the end of the slot array
C22_Witness ==
    \E i \in LiveSlots(map) :
        /\ H1(Hash(map.slots_[i].key)) % map.capacity_ > i
        /\ \E j \in ProbedBefore(map, map.slots_[i].key, i) :
              map.metadata_[j] = Deleted

\* the indices of the slots whose metadata is Deleted
Tombstones(t) == {i \in DOMAIN t.metadata_ : t.metadata_[i] = Deleted}

\* C23: deletedCount always equals the number of slots whose metadata is
\* Deleted: erase adds one, an insert that reuses a tombstone slot removes
\* one, and growth, compaction and clear reset it to 0 together with the
\* tombstones.
C23_DeletedCountIsTombstones ==
    map.deletedCount_ = Cardinality(Tombstones(map))

\* every slot in live is the subject of exactly one of the ~Slot() calls, and
\* no slot is the subject of two
DestructsEachOnce(calls, live) ==
    /\ \A i \in live : Cardinality({j \in DOMAIN calls : calls[j] = i}) = 1
    /\ \A j1, j2 \in DOMAIN calls : calls[j1] = calls[j2] => j1 = j2

\* C24: every slot value constructed in a storage buffer is destructed
\* exactly once, and before that buffer is released: erase destructs the
\* slot it removes, clear every live slot, and an erase that compacts, a
\* growth, a move assignment over a destination and the destruction of a
\* table destruct every live slot of the buffer they release, no slot twice.
C24_SlotsDestructedOnce ==
    [][/\ \A k \in Keys :
             (Erase(k) /\ present(map, k)) =>
                 DestructsEachOnce(eraseAtDestructs(map, doFind(map, k)),
                                   IF eraseAtReplacesBuffer(map, doFind(map, k))
                                   THEN LiveSlots(map)
                                   ELSE {doFind(map, k)})
       /\ Clear => DestructsEachOnce(clearDestructs(map), LiveSlots(map))
       /\ \A k \in Keys :
             (Insert(k, MaxValue) /\ needToGrowForInsert(map)) =>
                 DestructsEachOnce(insertDestructs(map), LiveSlots(map))
       /\ \A n \in 0..MaxReserve :
             (Reserve(n) /\ map.capacity_ < n) =>
                 DestructsEachOnce(reserveDestructs(map, n), LiveSlots(map))
       /\ MoveAssignStep =>
             DestructsEachOnce(MoveAssignDestructs(map2), LiveSlots(map2))
       /\ MoveToTemporary =>
             DestructsEachOnce(DestructorDestructs(MoveConstruct(map)),
                               LiveSlots(map))]_vars

\* C25: the raw slot storage never constructs or destructs an element on its
\* own: a buffer just created holds no constructed slot, and the storage
\* calls no ~Slot() at any index when its buffer is released, by the
\* destruction of the table or by the move assignment that replaces the
\* buffer in a growth, a compaction or a move, whatever slots are live.
C25_StorageLeavesSlotsAlone ==
    [][/\ \A n \in 0..MaxReserve :
             (Reserve(n) /\ map.capacity_ < n) =>
                 /\ \A i \in DOMAIN NewTable(n).slots_ : NewTable(n).slots_[i] = RawSlot
                 /\ \A i \in DOMAIN map'.slots_ :
                       IsFree(map'.metadata_[i]) => map'.slots_[i] = RawSlot
                 /\ FixedUninitVecRelease(map) = << >>
       /\ \A k \in Keys :
             (Insert(k, MaxValue) /\ needToGrowForInsert(map)) =>
                 FixedUninitVecRelease(map) = << >>
       /\ \A k \in Keys :
             (Erase(k) /\ present(map, k) /\ eraseAtReplacesBuffer(map, doFind(map, k))) =>
                 FixedUninitVecRelease(map) = << >>
       /\ MoveAssignStep => FixedUninitVecRelease(map2) = << >>
       /\ MoveToTemporary => FixedUninitVecRelease(MoveConstruct(map)) = << >>]_vars

\* the indices at which the metadata or the slot of t and u differ
ChangedSlots(t, u) ==
    {i \in DOMAIN t.slots_ : t.slots_[i] # u.slots_[i] \/ t.metadata_[i] # u.metadata_[i]}

\* C26: positions are stable when no growth or compaction occurs: an insert
\* that does not trigger growAndRehash and an erase that does not trigger
\* rehashEverything keep the capacity, leave every other live slot at the
\* same index with the same key, value and metadata, and change only the
\* one slot inserted into (a free slot before) or erased.
C26_PositionsAreStable ==
    [][/\ \A k \in Keys :
             (Insert(k, MaxValue) /\ ~needToGrowForInsert(map)) =>
                 /\ DOMAIN map'.slots_ = DOMAIN map.slots_
                 /\ DOMAIN map'.metadata_ = DOMAIN map.metadata_
                 /\ Cardinality(ChangedSlots(map, map')) <= 1
                 /\ \A i \in ChangedSlots(map, map') :
                       /\ IsFree(map.metadata_[i])
                       /\ map'.slots_[i] = Slot(k, MaxValue)
       /\ \A k \in Keys :
             (/\ Erase(k)
              /\ present(map, k)
              /\ ~needRehash([deleteSlot(map, doFind(map, k)) EXCEPT !.size_ = @ - 1])) =>
                 /\ DOMAIN map'.slots_ = DOMAIN map.slots_
                 /\ DOMAIN map'.metadata_ = DOMAIN map.metadata_
                 /\ ChangedSlots(map, map') = {doFind(map, k)}
                 /\ map'.metadata_[doFind(map, k)] = Deleted]_vars

\* an erase that did not compact has just left three or more live slots and
\* its tombstone in place
C26_Witness ==
    /\ status = "returned"
    /\ erased # NoErase
    /\ Cardinality(LiveSlots(map)) >= 3
    /\ Cardinality(Tombstones(map)) >= 1

\* C27: along any sequence of insert, erase, clear and reserve on one table
\* the capacity never decreases; erase, also one that triggers the tombstone
\* compaction, and clear leave the capacity exactly as it was.
C27_CapacityNeverShrinks ==
    [][/\ map'.capacity_ >= map.capacity_
       /\ (Clear \/ \E k \in Keys : Erase(k)) => map'.capacity_ = map.capacity_]_vars

\* an erase that compacted a table grown before has just returned: the
\* tombstone is gone, live slots remain, and the capacity is one that only a
\* doubling gives
C27_Witness ==
    /\ status = "returned"
    /\ erased # NoErase
    /\ map.size_ > 0
    /\ Tombstones(map) = {}
    /\ map.capacity_ > MaxReserve

\* the table on which insert runs insertUnchecked
BeforeInsertUnchecked(t) ==
    IF needToGrowForInsert(t) THEN growAndRehash(t) ELSE t

\* C28: insert terminates in every reachable state, capacity 0, a table
\* whose free slots are all tombstones and a table at its growth threshold
\* included: size <= capacity, the table the insertion probe runs on has a
\* free (Empty or Deleted) slot, and the loop of locationForInsertion exits
\* for every key.
C28_InsertTerminates ==
    /\ map.size_ <= map.capacity_
    /\ \E i \in DOMAIN BeforeInsertUnchecked(map).metadata_ :
          IsFree(BeforeInsertUnchecked(map).metadata_[i])
    /\ \A k \in Keys :
          /\ locationForInsertion(BeforeInsertUnchecked(map), k).idex # NoReturn
          /\ locationForInsertion(BeforeInsertUnchecked(map), k).idex # DivByZero
          /\ insert(map, k, MaxValue).table.size_ <= insert(map, k, MaxValue).table.capacity_

\* an insert has taken the last free slot of a table, a tombstone: the table
\* is full, at its growth threshold, and its tombstone count was left as it
\* was
C28_Witness ==
    /\ status = "returned"
    /\ map.capacity_ > 1
    /\ map.size_ = map.capacity_
    /\ Tombstones(map) = {}
    /\ map.deletedCount_ > 0

\* C29: erase(position) with a position that is out of range, or whose slot
\* is not live, is caught by an assertion: the call does not return, it
\* leaves size, deletedCount, the metadata and every slot as they were and
\* destructs no slot, so size never goes below 0.
C29_ErasePositionIsChecked ==
    [][\A idex \in Positions, ndebug \in BOOLEAN :
          (/\ ErasePosition(idex, ndebug)
           /\ idex # End(map)
           /\ idex \notin LiveSlots(map)) =>
              /\ status' = "asserted"
              /\ map' = map
              /\ map'.size_ >= 0
              /\ map'.size_ # SIZE_MAX
              /\ (idex < map.capacity_ => eraseAtDestructs(map, idex) = << >>)]_vars
====
